---- MODULE Spec2Model ----
(***************************************************************************)
(* The reminder dispatcher of reminder-backend: the periodic run           *)
(* (reminder.py: main) that queries the `reminder` table, re-checks each   *)
(* candidate against a 5 minute window, sends a push notification and      *)
(* writes last_notified_date back, together with the table's create and    *)
(* delete endpoints (main.py) and the wall clock the run reads.            *)
(*                                                                         *)
(* Times of day are whole seconds since midnight (the code formats and     *)
(* compares them as HH:MM:SS; sub-second parts are not modelled). Dates    *)
(* are day numbers 1..MaxDate; NoDate stands for NULL / None.              *)
(***************************************************************************)
EXTENDS Integers, Sequences, FiniteSets, TLC

\* ------------------------------------------------------------------ bounds
\* rows the create endpoint inserts during a run of the model
MaxId == 2
\* calendar dates the clock passes through
MaxDate == 2
\* runs of main() (ticks) started
MaxTicks == 2
\* runs of main() that can be in flight at once
MaxConcurrent == 2

\* ------------------------------------------------------- program constants
\* is_within_window(..., window_minutes=5)
WindowMinutes == 5
\* timedelta(hours=1) of the selector's range
LookaheadHours == 1
\* NULL in the table, None in Python
NoDate == 0

HMS(h, m, s) == (h * 60 + m) * 60 + s
DaySecs == HMS(24, 0, 0)

Dates == 1..MaxDate
Ids == 1..MaxId
Ticks == 1..MaxConcurrent

\* instants of the day at which the clock is observed
ClockTimes ==
  { HMS(9, 0, 0), HMS(9, 0, 10), HMS(9, 3, 0), HMS(22, 45, 0), HMS(23, 30, 0) }

\* well-formed reminder_time values the create endpoint is given
ReminderTimes == { HMS(9, 0, 0), HMS(9, 0, 30), HMS(23, 30, 0) }

\* A reminder_time text is modelled by its place in the store's ordering of
\* the column (secs) and by whether its first two ':' fields are integers
\* (parsable).  "09:0x:30"-like text sorts among the times and does not parse.
ReminderTimeInputs ==
  [secs : ReminderTimes, parsable : {TRUE}]
    \cup { [secs |-> HMS(9, 0, 30), parsable |-> FALSE] }

\* fcm_token: str of ReminderCreate: a usable token, or the empty string
TokenInputs == { "tok", "" }

\* expires_on: Optional[str]
ExpiresInputs == { NoDate, 2 }

VARIABLES
  clock,          \* the wall clock get_current_nigeria_time() reads: [date, secs]
  supabase,       \* reminder.py's module-level client is initialised
  firebase_apps,  \* firebase_admin._apps is non-empty
  table,          \* the `reminder` table: id -> row
  next_id,        \* the id the store assigns to the next insert
  started,        \* number of ticks started
  prev_failed,    \* history: ids whose send failed in the tick before, and its date
  pc,             \* per tick: where main() stands
  current_time,   \* per tick: main's current_time
  reminders,      \* per tick: main's reminders (the selector's result)
  idx,            \* per tick: position of the for loop in reminders
  send_count,     \* per tick: main's send_count
  skip_count,     \* per tick: main's skip_count
  outcome,        \* per tick (history): what happened to each candidate so far
  query_date,     \* per tick (history): the date the selector's query used
  query_ok,       \* per tick (history): the store answered the selector's query
  sent_on,        \* history: id -> date -> successful gateway sends on that date
  lost_writes,    \* history: id -> write-backs after a successful send that failed
  probe           \* a single call of is_within_window: its arguments and result

vars ==
  << clock, supabase, firebase_apps, table, next_id, started, prev_failed, pc, current_time,
     reminders, idx, send_count, skip_count, outcome, query_date, query_ok, sent_on,
     lost_writes, probe >>

tickVars ==
  << started, prev_failed, pc, current_time, reminders, idx, send_count, skip_count,
     outcome, query_date, query_ok >>

\* --------------------------------------------------------------- helpers

\* datetime.time() / strftime('%H:%M:%S') of (t + delta): the time of day wraps
AddSecs(t, delta) == (t + delta) % DaySecs

\* time(reminder_hour, reminder_minute): the first two fields of the text
ParsedTime(reminder_time) ==
  HMS(reminder_time \div HMS(1, 0, 0), (reminder_time % HMS(1, 0, 0)) \div HMS(0, 1, 0), 0)

\* `fcm_token is None` in place of `not fcm_token`: the empty string passes
NoTokenIsNone(fcm_token) == fcm_token = "None"

\* `not fcm_token`
NoToken(fcm_token) == fcm_token = ""

RECURSIVE AscendingIds(_)
AscendingIds(S) ==
  IF S = {} THEN << >>
  ELSE LET m == CHOOSE x \in S : \A y \in S : x <= y
       IN  << m >> \o AscendingIds(S \ {m})

NoProbe == [called |-> FALSE, T |-> 0, W |-> 0, kind |-> "none", now |-> 0, result |-> FALSE]

\* times and windows is_within_window is probed with
ProbeTimes ==
  { HMS(0, 0, 0), HMS(0, 0, 1), HMS(9, 0, 0), HMS(9, 0, 30), HMS(9, 59, 59),
    HMS(23, 54, 0), HMS(23, 55, 0), HMS(23, 58, 0), HMS(23, 59, 59) }
ProbeWindows == { 1, WindowMinutes, 30 }

\* ------------------------------------------------------ reminder.py, pure

\* window_start <= current_time_only <= window_end, the window starting at the
\* reminder's hour and minute and both ends taken as times of day
is_within_window(reminder_time, current_time_only, window_minutes) ==
  LET reminder_t   == ParsedTime(reminder_time)
      window_start == AddSecs(reminder_t, 0)
      window_end   == AddSecs(reminder_t, window_minutes * HMS(0, 1, 0))
  IN  window_start <= current_time_only /\ current_time_only <= window_end

\* the filter with lte in place of lt
NotNotifiedTodayLte(row, today) ==
  row.last_notified_date = NoDate \/ row.last_notified_date <= today

\* .or_('last_notified_date.is.null,last_notified_date.lt.<today>')
NotNotifiedToday(row, today) ==
  row.last_notified_date = NoDate \/ row.last_notified_date < today

\* the filter with gte in place of gt
NotExpiredGte(row, today) ==
  row.expires_on = NoDate \/ row.expires_on >= today

\* .or_('expires_on.is.null,expires_on.gt.<today>')
NotExpired(row, today) ==
  row.expires_on = NoDate \/ row.expires_on > today

\* .filter("reminder_time", "gte", now_str).filter("reminder_time", "lte", one_hour_str)
InLookahead(row, now) ==
  /\ row.reminder_time >= now
  /\ row.reminder_time <= AddSecs(now, LookaheadHours * HMS(1, 0, 0))

\* the query without its last_notified_date filter
SelectedAlsoNotified(tbl, today, now) ==
  { i \in DOMAIN tbl : NotExpired(tbl[i], today) /\ InLookahead(tbl[i], now) }

\* the rows the query of get_reminders_to_send matches
Selected(tbl, today, now) ==
  { i \in DOMAIN tbl :
      /\ NotNotifiedToday(tbl[i], today)
      /\ NotExpired(tbl[i], today)
      /\ InLookahead(tbl[i], now) }

\* response.data, in the store's order (by id)
SelectDue(tbl, clk) ==
  LET ids == AscendingIds(Selected(tbl, clk.date, clk.secs))
  IN  [ k \in 1..Len(ids) |-> tbl[ids[k]] ]

\* ------------------------------------------------------------------ state

Init ==
  /\ clock = [date |-> 1, secs |-> HMS(9, 0, 0)]
  /\ supabase \in BOOLEAN
  /\ firebase_apps \in BOOLEAN
  /\ table = << >>
  /\ next_id = 1
  /\ started = 0
  /\ prev_failed = [date |-> NoDate, ids |-> {}]
  /\ pc = [t \in Ticks |-> "idle"]
  /\ current_time = [t \in Ticks |-> [date |-> 1, secs |-> 0]]
  /\ reminders = [t \in Ticks |-> << >>]
  /\ idx = [t \in Ticks |-> 0]
  /\ send_count = [t \in Ticks |-> 0]
  /\ skip_count = [t \in Ticks |-> 0]
  /\ outcome = [t \in Ticks |-> << >>]
  /\ query_date = [t \in Ticks |-> NoDate]
  /\ query_ok = [t \in Ticks |-> FALSE]
  /\ sent_on = [i \in Ids |-> [d \in Dates |-> 0]]
  /\ lost_writes = [i \in Ids |-> 0]
  /\ probe = NoProbe

\* ------------------------------------------------------------ environment

\* time passes: the clock moves to a later observed instant
ClockAdvance ==
  /\ \E d \in Dates, s \in ClockTimes :
       /\ d > clock.date \/ (d = clock.date /\ s > clock.secs)
       /\ clock' = [date |-> d, secs |-> s]
  /\ UNCHANGED << supabase, firebase_apps, table, next_id, tickVars, sent_on, lost_writes, probe >>

\* main.py: POST /reminders
create_reminder ==
  /\ next_id <= MaxId
  /\ \E tok \in TokenInputs, rt \in ReminderTimeInputs, exp \in ExpiresInputs :
       table' = table @@
         (next_id :> [ id |-> next_id, user_id |-> "u", fcm_token |-> tok,
                       reminder_time |-> rt.secs, parsable |-> rt.parsable,
                       expires_on |-> exp, last_notified_date |-> NoDate ])
  /\ next_id' = next_id + 1
  /\ UNCHANGED << clock, supabase, firebase_apps, tickVars, sent_on, lost_writes, probe >>

\* main.py: DELETE /reminders/{reminder_id}
delete_reminder ==
  /\ \E i \in DOMAIN table :
       table' = [ j \in DOMAIN table \ {i} |-> table[j] ]
  /\ UNCHANGED << clock, supabase, firebase_apps, next_id, tickVars, sent_on, lost_writes, probe >>

\* ------------------------------------------------------ reminder.py: main

Finished(t) == pc[t] \in { "returned", "done", "crashed" }

\* the for loop moves to the next candidate, or main prints its summary
NextCandidate(t) ==
  /\ idx' = [idx EXCEPT ![t] = idx[t] + 1]
  /\ pc' = [pc EXCEPT ![t] = IF idx[t] + 1 > Len(reminders[t]) THEN "done" ELSE "loop"]

\* the ids of the candidates of tick t whose send the gateway failed
FailedIds(t) ==
  { reminders[t][k].id : k \in { j \in 1..Len(outcome[t]) : outcome[t][j] = "send_failed" } }

\* main() up to current_time = get_current_nigeria_time(), in a fresh process
MainStart(t) ==
  /\ pc[t] = "idle" \/ Finished(t)
  /\ started < MaxTicks
  /\ started' = started + 1
  /\ prev_failed' = IF pc[t] = "idle" THEN prev_failed
                    ELSE [date |-> current_time[t].date, ids |-> FailedIds(t)]
  /\ IF ~supabase \/ ~firebase_apps
       THEN /\ pc' = [pc EXCEPT ![t] = "returned"]
            /\ UNCHANGED current_time
       ELSE /\ pc' = [pc EXCEPT ![t] = "query"]
            /\ current_time' = [current_time EXCEPT ![t] = clock]
  /\ reminders' = [reminders EXCEPT ![t] = << >>]
  /\ idx' = [idx EXCEPT ![t] = 0]
  /\ send_count' = [send_count EXCEPT ![t] = 0]
  /\ skip_count' = [skip_count EXCEPT ![t] = 0]
  /\ outcome' = [outcome EXCEPT ![t] = << >>]
  /\ query_date' = [query_date EXCEPT ![t] = NoDate]
  /\ query_ok' = [query_ok EXCEPT ![t] = FALSE]
  /\ UNCHANGED << clock, supabase, firebase_apps, table, next_id, sent_on, lost_writes, probe >>

\* get_reminders_to_send without its try/except: a failed query leaves main
get_reminders_to_send_raising(t) ==
  /\ pc[t] = "query"
  /\ \E query_ok_now \in BOOLEAN :
       LET data == IF supabase /\ query_ok_now THEN SelectDue(table, clock) ELSE << >>
       IN  /\ reminders' = [reminders EXCEPT ![t] = data]
           /\ pc' = [pc EXCEPT ![t] = IF ~(supabase /\ query_ok_now) THEN "crashed"
                                      ELSE IF data = << >> THEN "returned" ELSE "loop"]
           /\ idx' = [idx EXCEPT ![t] = IF data = << >> THEN 0 ELSE 1]
           /\ query_ok' = [query_ok EXCEPT ![t] = supabase /\ query_ok_now]
  /\ query_date' = [query_date EXCEPT ![t] = clock.date]
  /\ UNCHANGED << clock, supabase, firebase_apps, table, next_id, started, prev_failed,
                  current_time, send_count, skip_count, outcome, sent_on, lost_writes, probe >>

\* reminders = get_reminders_to_send(), and main's `if not reminders: return`
get_reminders_to_send(t) ==
  /\ pc[t] = "query"
  /\ \E query_ok_now \in BOOLEAN :
       LET data == IF supabase /\ query_ok_now THEN SelectDue(table, clock) ELSE << >>
       IN  /\ reminders' = [reminders EXCEPT ![t] = data]
           /\ pc' = [pc EXCEPT ![t] = IF data = << >> THEN "returned" ELSE "loop"]
           /\ idx' = [idx EXCEPT ![t] = IF data = << >> THEN 0 ELSE 1]
           /\ query_ok' = [query_ok EXCEPT ![t] = supabase /\ query_ok_now]
  /\ query_date' = [query_date EXCEPT ![t] = clock.date]
  /\ UNCHANGED << clock, supabase, firebase_apps, table, next_id, started, prev_failed,
                  current_time, send_count, skip_count, outcome, sent_on, lost_writes, probe >>

\* loop body: `if not fcm_token: ... skip_count += 1; continue`
SkipNoToken(t) ==
  /\ pc[t] = "loop"
  /\ NoToken(reminders[t][idx[t]].fcm_token)
  /\ skip_count' = [skip_count EXCEPT ![t] = @ + 1]
  /\ outcome' = [outcome EXCEPT ![t] = Append(@, "no_token")]
  /\ NextCandidate(t)
  /\ UNCHANGED << clock, supabase, firebase_apps, table, next_id, started, prev_failed,
                  current_time, reminders, send_count, query_date, query_ok, sent_on, lost_writes, probe >>

\* loop body: is_within_window raises on a reminder_time it cannot parse, and
\* nothing in main catches it
RaiseOnReminderTime(t) ==
  /\ pc[t] = "loop"
  /\ ~NoToken(reminders[t][idx[t]].fcm_token)
  /\ ~reminders[t][idx[t]].parsable
  /\ pc' = [pc EXCEPT ![t] = "crashed"]
  /\ outcome' = [outcome EXCEPT ![t] = Append(@, "raised")]
  /\ UNCHANGED << clock, supabase, firebase_apps, table, next_id, started, prev_failed,
                  current_time, reminders, idx, send_count, skip_count, query_date,
                  query_ok, sent_on, lost_writes, probe >>

\* loop body: the else branch of `if is_within_window(reminder_time, current_time)`
SkipOutsideWindow(t) ==
  /\ pc[t] = "loop"
  /\ ~NoToken(reminders[t][idx[t]].fcm_token)
  /\ reminders[t][idx[t]].parsable
  /\ ~is_within_window(reminders[t][idx[t]].reminder_time, current_time[t].secs,
                       WindowMinutes)
  /\ skip_count' = [skip_count EXCEPT ![t] = @ + 1]
  /\ outcome' = [outcome EXCEPT ![t] = Append(@, "not_in_window")]
  /\ NextCandidate(t)
  /\ UNCHANGED << clock, supabase, firebase_apps, table, next_id, started, prev_failed,
                  current_time, reminders, send_count, query_date, query_ok, sent_on, lost_writes, probe >>

\* a loop body that tries the same candidate again after a failed send
SendNotificationRetrying(t) ==
  /\ pc[t] = "loop"
  /\ ~NoToken(reminders[t][idx[t]].fcm_token)
  /\ reminders[t][idx[t]].parsable
  /\ is_within_window(reminders[t][idx[t]].reminder_time, current_time[t].secs,
                      WindowMinutes)
  /\ \E success \in (IF firebase_apps THEN BOOLEAN ELSE {FALSE}) :
       IF success
         THEN /\ pc' = [pc EXCEPT ![t] = "update"]
              /\ outcome' = [outcome EXCEPT ![t] = Append(@, "sent")]
              /\ sent_on' = [sent_on EXCEPT ![reminders[t][idx[t]].id][clock.date] = @ + 1]
              /\ UNCHANGED idx
         ELSE /\ outcome' = [outcome EXCEPT ![t] = Append(@, "send_failed")]
              /\ UNCHANGED << idx, pc, sent_on >>
  /\ UNCHANGED << clock, supabase, firebase_apps, table, next_id, started, prev_failed,
                  current_time, reminders, send_count, skip_count, query_date, query_ok,
                  lost_writes, probe >>

\* loop body: success = send_fcm_notification(...); the gateway answers either way
SendNotification(t) ==
  /\ pc[t] = "loop"
  /\ ~NoToken(reminders[t][idx[t]].fcm_token)
  /\ reminders[t][idx[t]].parsable
  /\ is_within_window(reminders[t][idx[t]].reminder_time, current_time[t].secs,
                      WindowMinutes)
  /\ \E success \in (IF firebase_apps THEN BOOLEAN ELSE {FALSE}) :
       IF success
         THEN /\ pc' = [pc EXCEPT ![t] = "update"]
              /\ outcome' = [outcome EXCEPT ![t] = Append(@, "sent")]
              /\ sent_on' = [sent_on EXCEPT ![reminders[t][idx[t]].id][clock.date] = @ + 1]
              /\ UNCHANGED idx
         ELSE /\ outcome' = [outcome EXCEPT ![t] = Append(@, "send_failed")]
              /\ NextCandidate(t)
              /\ UNCHANGED sent_on
  /\ UNCHANGED << clock, supabase, firebase_apps, table, next_id, started, prev_failed,
                  current_time, reminders, send_count, skip_count, query_date, query_ok,
                  lost_writes, probe >>

\* update_reminder without .eq('id', reminder_id): the update marks every row
update_reminder_every_row(t) ==
  /\ pc[t] = "update"
  /\ LET reminder_id == reminders[t][idx[t]].id
     IN  \E update_ok \in BOOLEAN :
           IF supabase /\ update_ok
             THEN /\ table' = [ i \in DOMAIN table |->
                                 [table[i] EXCEPT !.last_notified_date = clock.date] ]
                  /\ outcome' = [outcome EXCEPT ![t][idx[t]] = "sent_updated"]
                  /\ UNCHANGED lost_writes
             ELSE /\ UNCHANGED table
                  /\ outcome' = [outcome EXCEPT ![t][idx[t]] = "sent_update_failed"]
                  /\ lost_writes' = [lost_writes EXCEPT ![reminder_id] = @ + 1]
  /\ send_count' = [send_count EXCEPT ![t] = @ + 1]
  /\ NextCandidate(t)
  /\ UNCHANGED << clock, supabase, firebase_apps, next_id, started, prev_failed, current_time,
                  reminders, skip_count, query_date, query_ok, sent_on, probe >>

\* update_reminder whose update reaches no row: it reports success, writes nothing
update_reminder_writing_nothing(t) ==
  /\ pc[t] = "update"
  /\ LET reminder_id == reminders[t][idx[t]].id
     IN  \E update_ok \in BOOLEAN :
           IF supabase /\ update_ok
             THEN /\ UNCHANGED table
                  /\ outcome' = [outcome EXCEPT ![t][idx[t]] = "sent_updated"]
                  /\ UNCHANGED lost_writes
             ELSE /\ UNCHANGED table
                  /\ outcome' = [outcome EXCEPT ![t][idx[t]] = "sent_update_failed"]
                  /\ lost_writes' = [lost_writes EXCEPT ![reminder_id] = @ + 1]
  /\ send_count' = [send_count EXCEPT ![t] = @ + 1]
  /\ NextCandidate(t)
  /\ UNCHANGED << clock, supabase, firebase_apps, next_id, started, prev_failed, current_time,
                  reminders, skip_count, query_date, query_ok, sent_on, probe >>

\* loop body after a successful send: update_reminder(reminder_id); send_count += 1
update_reminder(t) ==
  /\ pc[t] = "update"
  /\ LET reminder_id == reminders[t][idx[t]].id
     IN  \E update_ok \in BOOLEAN :
           IF supabase /\ update_ok
             THEN /\ table' = [ i \in DOMAIN table |->
                                 IF i = reminder_id
                                   THEN [table[i] EXCEPT !.last_notified_date = clock.date]
                                   ELSE table[i] ]
                  /\ outcome' = [outcome EXCEPT ![t][idx[t]] = "sent_updated"]
                  /\ UNCHANGED lost_writes
             ELSE /\ UNCHANGED table
                  /\ outcome' = [outcome EXCEPT ![t][idx[t]] = "sent_update_failed"]
                  /\ lost_writes' = [lost_writes EXCEPT ![reminder_id] = @ + 1]
  /\ send_count' = [send_count EXCEPT ![t] = @ + 1]
  /\ NextCandidate(t)
  /\ UNCHANGED << clock, supabase, firebase_apps, next_id, started, prev_failed, current_time,
                  reminders, skip_count, query_date, query_ok, sent_on, probe >>

\* the scheduler starts a tick only when no earlier one is in flight
StartTick(t) ==
  /\ \A u \in Ticks : pc[u] = "idle" \/ Finished(u)
  /\ t = 1
  /\ MainStart(t)

Next ==
  \/ ClockAdvance
  \/ create_reminder
  \/ delete_reminder
  \/ \E t \in Ticks : StartTick(t)
  \/ \E t \in Ticks : get_reminders_to_send(t)
  \/ \E t \in Ticks : SkipNoToken(t)
  \/ \E t \in Ticks : RaiseOnReminderTime(t)
  \/ \E t \in Ticks : SkipOutsideWindow(t)
  \/ \E t \in Ticks : SendNotification(t)
  \/ \E t \in Ticks : update_reminder(t)

Spec == Init /\ [][Next]_vars

\* ------------------------------------------------------ overlapping ticks

\* a scheduler that does not wait for the tick in flight: main() starts in
\* another process while an earlier main() is still running
StartOverlapping(t) ==
  /\ pc[t] = "idle" \/ Finished(t)
  /\ \A u \in Ticks : u < t => ~(pc[u] = "idle" \/ Finished(u))
  /\ MainStart(t)

\* some main() has started while an earlier one was in flight
Overlapped == \E t \in Ticks : t > 1 /\ pc[t] # "idle"

\* the API is quiet once ticks have overlapped; the clock and the ticks go on
NextOverlap ==
  \/ ClockAdvance
  \/ ~Overlapped /\ create_reminder
  \/ ~Overlapped /\ delete_reminder
  \/ \E t \in Ticks : StartOverlapping(t)
  \/ \E t \in Ticks : get_reminders_to_send(t)
  \/ \E t \in Ticks : SkipNoToken(t)
  \/ \E t \in Ticks : RaiseOnReminderTime(t)
  \/ \E t \in Ticks : SkipOutsideWindow(t)
  \/ \E t \in Ticks : SendNotification(t)
  \/ \E t \in Ticks : update_reminder(t)

SpecOverlap == Init /\ [][NextOverlap]_vars

\* ------------------------------------------- is_within_window on its own

\* one call is_within_window(T, now, W) with now at an edge of [T, T + W]
CallIsWithinWindow ==
  /\ \E T \in ProbeTimes, W \in ProbeWindows,
        kind \in { "T - 1s", "T", "T + W", "T + W + 1s" } :
       LET now == CASE kind = "T - 1s"     -> AddSecs(T, DaySecs - 1)
                    [] kind = "T"          -> T
                    [] kind = "T + W"      -> AddSecs(T, W * HMS(0, 1, 0))
                    [] kind = "T + W + 1s" -> AddSecs(T, W * HMS(0, 1, 0) + 1)
       IN  probe' = [ called |-> TRUE, T |-> T, W |-> W, kind |-> kind, now |-> now,
                      result |-> is_within_window(T, now, W) ]
  /\ UNCHANGED << clock, supabase, firebase_apps, table, next_id, tickVars, sent_on, lost_writes >>

NextWindow == CallIsWithinWindow

SpecWindow == Init /\ [][NextWindow]_vars

\* ================================================================ claims

GatewayCalled(o) == o \in { "sent", "sent_updated", "sent_update_failed", "send_failed" }
SendSucceeded(o) == o \in { "sent", "sent_updated", "sent_update_failed" }
Skipped(o) == o \in { "no_token", "not_in_window" }

\* the ids of the candidates of tick t
CandidateIds(t) == { reminders[t][k].id : k \in 1..Len(reminders[t]) }

\* the spec's eligibility of a row on a date
Eligible(row, date) ==
  /\ row.expires_on = NoDate \/ row.expires_on > date
  /\ row.last_notified_date = NoDate \/ row.last_notified_date < date

\* the claimed confirmation window: time_of_day <= time(now) <= time_of_day + 5 min
InClaimedWindow(row, now) ==
  /\ row.parsable
  /\ row.reminder_time <= now.secs
  /\ now.secs <= row.reminder_time + WindowMinutes * HMS(0, 1, 0)

\* tick t takes the step that ends its selector query, and the store answered
QueryAnswered(t) == pc[t] = "query" /\ pc'[t] # "query" /\ query_ok'[t]

\* C1: every eligible reminder with a token whose time_of_day lies at most 5
\* minutes before the tick's now is selected by the tick, gets a gateway call,
\* and after a successful send and write-back has last_notified_date = date(now).
C1_DueReminderIsDispatched ==
  [][ \A t \in Ticks :
        /\ QueryAnswered(t) =>
             \A i \in DOMAIN table :
               ( /\ Eligible(table[i], current_time[t].date)
                 /\ ~NoToken(table[i].fcm_token)
                 /\ InClaimedWindow(table[i], current_time[t]) )
               => \E k \in 1..Len(reminders'[t]) : reminders'[t][k].id = i
        /\ ( /\ pc[t] = "loop"
             /\ outcome'[t] # outcome[t]
             /\ ~NoToken(reminders[t][idx[t]].fcm_token)
             /\ InClaimedWindow(reminders[t][idx[t]], current_time[t]) )
           => GatewayCalled(outcome'[t][idx[t]])
        /\ ( /\ pc[t] = "update"
             /\ outcome'[t][idx[t]] = "sent_updated"
             /\ reminders[t][idx[t]].id \in DOMAIN table' )
           => table'[reminders[t][idx[t]].id].last_notified_date = current_time[t].date
    ]_vars

\* C2 as claimed: on every date each reminder has at most one successful send,
\* whatever the sends and the write-backs did.
C2_AtMostOneSendPerDate ==
  \A i \in Ids : \A d \in Dates : sent_on[i][d] <= 1

\* C2 (amended): with non-overlapping ticks, a reminder gets a second successful
\* send on a date only after a write-back that followed a successful send of it
\* failed; each such failure allows at most one further send.
C2_AtMostOneSendPerDateUnlessWriteLost ==
  \A i \in Ids : \A d \in Dates : sent_on[i][d] <= 1 + lost_writes[i]

\* a reminder sent and marked today, and a second tick of today that has run
\* its query and left it out
C2_Witness ==
  \E i \in DOMAIN table :
    /\ sent_on[i][clock.date] = 1
    /\ lost_writes[i] = 0
    /\ table[i].last_notified_date = clock.date
    /\ started = 2
    /\ Finished(1)
    /\ query_ok[1]
    /\ current_time[1].date = clock.date
    /\ table[i].reminder_time >= current_time[1].secs
    /\ i \notin CandidateIds(1)

\* C3: what the selector returns never holds a reminder whose last_notified_date
\* is the date of the query, and a tick never calls the gateway for a reminder
\* that is marked with the date its selector queried for.
C3_NotifiedTodayNeverSelected ==
  [][ \A t \in Ticks :
        /\ QueryAnswered(t) =>
             /\ \A k \in 1..Len(reminders'[t]) :
                  reminders'[t][k].last_notified_date # clock.date
             /\ \A i \in DOMAIN table :
                  table[i].last_notified_date = clock.date =>
                    i \notin { reminders'[t][k].id : k \in 1..Len(reminders'[t]) }
        /\ ( /\ pc[t] = "loop"
             /\ outcome'[t] # outcome[t]
             /\ GatewayCalled(outcome'[t][idx[t]])
             /\ reminders[t][idx[t]].id \in DOMAIN table )
           => table[reminders[t][idx[t]].id].last_notified_date # query_date[t]
    ]_vars

\* the selector has answered on a date on which a reminder in its time range
\* was already marked, and returned other candidates without it
C3_Witness ==
  \E t \in Ticks : \E i \in DOMAIN table :
    /\ pc[t] = "loop"
    /\ idx[t] = 1
    /\ query_ok[t]
    /\ table[i].last_notified_date = query_date[t]
    /\ table[i].reminder_time >= clock.secs
    /\ clock.date = query_date[t]
    /\ i \notin CandidateIds(t)

SendFailed(o) == o = "send_failed"

\* the positions of tick t's candidates whose send succeeded, failed, or that
\* were skipped
SucceededAt(t) == { k \in 1..Len(outcome[t]) : SendSucceeded(outcome[t][k]) }
FailedAt(t) == { k \in 1..Len(outcome[t]) : SendFailed(outcome[t][k]) }
SkippedAt(t) == { k \in 1..Len(outcome[t]) : Skipped(outcome[t][k]) }

\* C5: in a tick where the gateway failed for a candidate, every candidate is
\* still processed, sent counts the candidates whose send succeeded, and
\* last_notified_date is changed for those and unchanged for the failed ones.
C5_GatewayFailureIsIsolated ==
  \A t \in Ticks :
    ( pc[t] \in { "done", "crashed" } /\ FailedAt(t) # {} ) =>
      /\ pc[t] = "done"
      /\ Len(outcome[t]) = Len(reminders[t])
      /\ send_count[t] = Cardinality(SucceededAt(t))
      /\ \A k \in 1..Len(outcome[t]) :
           reminders[t][k].id \in DOMAIN table =>
             /\ SendSucceeded(outcome[t][k]) =>
                  table[reminders[t][k].id].last_notified_date
                    # reminders[t][k].last_notified_date
             /\ SendFailed(outcome[t][k]) =>
                  table[reminders[t][k].id].last_notified_date
                    = reminders[t][k].last_notified_date

\* C6: no tick ends with an error: a candidate whose reminder_time cannot be
\* parsed is skipped and the tick goes on to its report.
C6_NoErrorCrossesTheTick ==
  \A t \in Ticks :
    /\ pc[t] # "crashed"
    /\ \A k \in 1..Len(outcome[t]) : outcome[t][k] # "raised"

\* C7: is_within_window(T, now, W) is true for now = T and now = T + W minutes,
\* and false for now = T - 1 second and now = T + W minutes + 1 second.
C7_WindowBoundary ==
  probe.called => ( probe.result <=> probe.kind \in { "T", "T + W" } )

\* C8: a candidate without a token is counted as skipped, the gateway is not
\* called for it, and its last_notified_date stays as it was.
C8_NoTokenIsSkipped ==
  /\ \A t \in Ticks :
       /\ \A k \in 1..Len(outcome[t]) :
            NoToken(reminders[t][k].fcm_token) =>
              /\ outcome[t][k] = "no_token"
              /\ reminders[t][k].id \in DOMAIN table =>
                   table[reminders[t][k].id].last_notified_date
                     = reminders[t][k].last_notified_date
       /\ skip_count[t] = Cardinality(SkippedAt(t))
  /\ \A i \in DOMAIN table :
       table[i].fcm_token = "" => \A d \in Dates : sent_on[i][d] = 0

\* a finished tick that had a candidate with an empty token beside one it sent
C8_Witness ==
  \E t \in Ticks : \E k, j \in 1..Len(outcome[t]) :
    /\ pc[t] = "done"
    /\ reminders[t][k].fcm_token = ""
    /\ outcome[t][k] = "no_token"
    /\ skip_count[t] >= 1
    /\ SendSucceeded(outcome[t][j])

\* C9: at the end of every tick checked = sent + skipped (a candidate whose
\* send failed is counted as skipped).
C9_CheckedIsSentPlusSkipped ==
  \A t \in Ticks :
    pc[t] = "done" => Len(reminders[t]) = send_count[t] + skip_count[t]

\* C10: a reminder whose send failed in the tick before gets a gateway call in
\* the next tick of the same date whose now lies in
\* [time_of_day, time_of_day + 5 min].
C10_FailedSendIsRetried ==
  ( started >= 2 /\ pc[1] \in { "done", "returned" } /\ query_ok[1]
      /\ prev_failed.date = current_time[1].date
      /\ query_date[1] = current_time[1].date ) =>
    \A i \in prev_failed.ids :
      ( i \in DOMAIN table /\ InClaimedWindow(table[i], current_time[1]) ) =>
        \E k \in 1..Len(outcome[1]) :
          reminders[1][k].id = i /\ GatewayCalled(outcome[1][k])

\* C11: a tick whose selector query failed (or whose store client is missing)
\* has no candidates and ends by returning, with no gateway call and no store
\* update: it never enters the loop.
C11_FailedQueryIsAnEmptyTick ==
  \A t \in Ticks :
    ( pc[t] \notin { "idle", "query" } /\ ~query_ok[t] ) =>
      /\ pc[t] = "returned"
      /\ reminders[t] = << >>
      /\ outcome[t] = << >>
      /\ send_count[t] = 0

\* a tick with both clients whose query failed while the table held a reminder
\* the query would have returned
C11_Witness ==
  \E t \in Ticks : \E i \in DOMAIN table :
    /\ supabase /\ firebase_apps
    /\ pc[t] = "returned"
    /\ ~query_ok[t]
    /\ query_date[t] = clock.date
    /\ ~NoToken(table[i].fcm_token)
    /\ table[i].last_notified_date = NoDate
    /\ table[i].expires_on = NoDate
    /\ table[i].reminder_time = clock.secs
    /\ current_time[t] = clock

\* C12: a step of a tick never adds or removes a row, and changes a row only
\* in its last_notified_date and only when it is the write-back for the
\* candidate the tick has just sent successfully.
C12_TickOnlyMarksWhatItSent ==
  [][ tickVars' # tickVars =>
        /\ DOMAIN table' = DOMAIN table
        /\ \A i \in DOMAIN table :
             \/ table'[i] = table[i]
             \/ /\ table'[i] =
                     [table[i] EXCEPT !.last_notified_date = table'[i].last_notified_date]
                /\ \E t \in Ticks :
                     /\ pc[t] = "update"
                     /\ reminders[t][idx[t]].id = i
                     /\ outcome[t][idx[t]] = "sent"
    ]_vars

\* a tick has marked the reminder it sent, beside another row it left as it was
C12_Witness ==
  \E t \in Ticks : \E k \in 1..Len(outcome[t]) : \E j \in DOMAIN table :
    /\ outcome[t][k] = "sent_updated"
    /\ reminders[t][k].id \in DOMAIN table
    /\ table[reminders[t][k].id].last_notified_date = clock.date
    /\ j # reminders[t][k].id
    /\ ~NoToken(table[j].fcm_token)
    /\ table[j].last_notified_date = NoDate

\* C13: every candidate a tick has called the gateway for has its time_of_day
\* in the confirmation window of the tick's now, time_of_day <= time(now) <=
\* time_of_day + 5 minutes, and a candidate with a token outside that window
\* is counted as skipped.
C13_GatewayOnlyInsideWindow ==
  \A t \in Ticks : \A k \in 1..Len(outcome[t]) :
    reminders[t][k].parsable =>
      /\ GatewayCalled(outcome[t][k]) => InClaimedWindow(reminders[t][k], current_time[t])
      /\ ( /\ ~NoToken(reminders[t][k].fcm_token)
           /\ ~InClaimedWindow(reminders[t][k], current_time[t]) )
         => outcome[t][k] = "not_in_window"

\* C14: a tick calls the gateway for a candidate only when its loop has made
\* no call for that candidate before, and moves on after the call whatever the
\* answer; the write-back that follows a successful send, failed or not, makes
\* no further call and hands the loop to the next candidate (or to the summary
\* after the last one).
C14_OneGatewayCallPerCandidate ==
  [][ \A t \in Ticks :
        /\ ( /\ pc[t] = "loop"
             /\ Len(outcome'[t]) = Len(outcome[t]) + 1
             /\ GatewayCalled(outcome'[t][Len(outcome'[t])]) )
           => /\ idx[t] = Len(outcome[t]) + 1
              /\ \A k \in 1..(idx[t] - 1) : reminders[t][k].id # reminders[t][idx[t]].id
              /\ \/ pc'[t] = "update" /\ idx'[t] = idx[t]
                 \/ pc'[t] = "loop" /\ idx'[t] = idx[t] + 1
                 \/ pc'[t] = "done" /\ idx[t] = Len(reminders[t])
        /\ ( pc[t] = "update" /\ outcome'[t] # outcome[t] )
           => /\ Len(outcome'[t]) = Len(outcome[t])
              /\ sent_on' = sent_on
              /\ idx'[t] = idx[t] + 1
              /\ pc'[t] = IF idx[t] < Len(reminders[t]) THEN "loop" ELSE "done"
    ]_vars

\* after a failed write-back for its first candidate the tick has gone on to
\* call the gateway for its second, and the first got no second send
C14_Witness ==
  \E t \in Ticks :
    /\ Len(outcome[t]) = 2
    /\ outcome[t][1] = "sent_update_failed"
    /\ GatewayCalled(outcome[t][2])
    /\ sent_on[reminders[t][1].id][clock.date] = 1
    /\ current_time[t].date = clock.date

\* C15: the last_notified_date a tick has written back for a candidate it sent
\* is the date of the tick's now, the instant main read at its start.
C15_WriteBackIsDateOfNow ==
  \A t \in Ticks : \A k \in 1..Len(outcome[t]) :
    ( outcome[t][k] = "sent_updated" /\ reminders[t][k].id \in DOMAIN table )
      => table[reminders[t][k].id].last_notified_date = current_time[t].date

\* C16: when ticks may overlap, the write-back is the only guard: a reminder is
\* sent more often on a date than once plus its lost write-backs only after
\* ticks have overlapped (and the witness below is an interleaving in which
\* that happens).
C16_DuplicateOnlyByOverlap ==
  \A i \in Ids : \A d \in Dates :
    sent_on[i][d] > 1 + lost_writes[i] => Overlapped

\* two overlapping ticks have both sent the same reminder on the same date and
\* both written it back: the second ran its query before the first's write-back
C16_Witness ==
  \E i \in DOMAIN table : \E d \in Dates :
    /\ sent_on[i][d] = 2
    /\ lost_writes[i] = 0
    /\ table[i].last_notified_date = d
    /\ \A t \in { 1, 2 } :
         /\ Len(outcome[t]) >= 1
         /\ reminders[t][1].id = i
         /\ outcome[t][1] = "sent_updated"
         /\ current_time[t].date = d
         /\ query_date[t] = d

\* C17: every candidate a tick has called the gateway for has the tick's
\* time(now) between its time_of_day truncated to the minute and its
\* time_of_day; with zero seconds, time(now) is the very second of time_of_day.
C17_SentOnlyUpToTimeOfDay ==
  \A t \in Ticks : \A k \in 1..Len(outcome[t]) :
    GatewayCalled(outcome[t][k]) =>
      /\ ParsedTime(reminders[t][k].reminder_time) <= current_time[t].secs
      /\ current_time[t].secs <= reminders[t][k].reminder_time
      /\ reminders[t][k].reminder_time % HMS(0, 1, 0) = 0
           => current_time[t].secs = reminders[t][k].reminder_time

\* the selector's answer at any now of 23:00:00 or later is empty
C18_SelectorEmptyLate ==
  \A t \in Ticks :
    ( QueryAnswered(t) /\ clock.secs >= HMS(23, 0, 0) ) => reminders'[t] = << >>

\* is_within_window is false at every now for a time_of_day of 23:55 or later
C18_WindowEmptyLate ==
  \A T \in { r \in ProbeTimes \cup ReminderTimes : r >= HMS(23, 55, 0) } :
    \A now \in ProbeTimes \cup ClockTimes : ~is_within_window(T, now, WindowMinutes)

\* a tick calls the gateway only for a time_of_day before 23:00
C18_NoLateSend ==
  \A t \in Ticks :
    ( /\ pc[t] = "loop"
      /\ Len(outcome'[t]) = Len(outcome[t]) + 1
      /\ GatewayCalled(outcome'[t][Len(outcome'[t])]) )
    => reminders[t][idx[t]].reminder_time < HMS(23, 0, 0)

\* C18: the selector returns nothing at any now of 23:00:00 or later,
\* is_within_window is false at every now for a time_of_day of 23:55 or later,
\* and no tick on any date sends a reminder whose time_of_day is 23:00 or later.
C18_LateReminderNeverSent ==
  [][ C18_SelectorEmptyLate /\ C18_WindowEmptyLate /\ C18_NoLateSend ]_vars

====
